---- MODULE Spec2Model ----
(***************************************************************************)
(* Sliding-tile puzzle solver (8-puzzle / 15-puzzle): the state model      *)
(* (src/src/puzzle.py), the three heuristics (src/src/heuristics), the     *)
(* search node (src/src/node.py) and the two search engines                *)
(* (src/src/search/astar.py, src/src/search/best_first.py).                *)
(*                                                                         *)
(* A puzzle state is the tuple of its cells, row by row; the code's list   *)
(* indices are 0-based, so Cell(s, i) reads index i of the Python list.    *)
(***************************************************************************)
EXTENDS Integers, Sequences, FiniteSets, TLC

VARIABLES
    state,            \* the Puzzle a caller holds (Puzzle.state)
    origin,           \* "goal" or "twin": the board the caller started from
    depth,            \* number of moves applied to reach `state` from its origin
    pc,               \* "idle" | "loop" | "done": position inside Search.search
    algorithm,        \* "astar" | "best-first" | "none" (no search started yet)
    heuristic_name,   \* key of HEURISTICS handed to search
    max_steps,        \* Search.max_steps
    initial_state,    \* the argument of search
    nodes,            \* every Node that was pushed, in push order (node k+1 has counter k)
    open_list,        \* the heap: a set of <<priority, counter, node index>>
    open_dict,        \* A*: state -> node index
    open_set,         \* best-first: set of states
    closed_set,       \* set of expanded states
    counter,          \* tie-breaking counter
    nodes_expanded,
    nodes_generated,
    result,           \* the value search returned: NoResult, None, or a Node
    call,             \* the last call of Puzzle(...), from_string or apply_move, with its outcome
    gen_pc,           \* "idle" | "loop" | "done" | "error": position in generate_random_solvable
    gen_n,            \* generate_random_solvable's n
    gen_size,         \* generate_random_solvable's size
    unique_states,    \* generate_random_solvable's set of the states produced so far
    gen_result,       \* generate_random_solvable's result list
    gen_raised,       \* what generate_random_solvable raised, NotRaised when nothing
    search_calls      \* how many times search was called on the engine object

vars == <<state, origin, depth, pc, algorithm, heuristic_name, max_steps, initial_state,
          nodes, open_list, open_dict, open_set, closed_set, counter,
          nodes_expanded, nodes_generated, result,
          call, gen_pc, gen_n, gen_size, unique_states, gen_result, gen_raised,
          search_calls>>

searchVars == <<pc, algorithm, heuristic_name, max_steps, initial_state,
                nodes, open_list, open_dict, open_set, closed_set, counter,
                nodes_expanded, nodes_generated, result>>

callVars == <<call>>

genVars == <<gen_pc, gen_n, gen_size, unique_states, gen_result, gen_raised>>

(***************************************************************************)
(* Bounds of the model.                                                    *)
(***************************************************************************)
\* longest move sequence the walker applies to a start board
MaxDepth == 13
\* longest scramble of the goal handed to a search
MaxScramble == 7
\* the small step budgets tried besides the default one: 0..MaxSmallSteps
MaxSmallSteps == 2

\* the calling specification makes at most this many calls
MaxCalls == 3

\* the completing specification scrambles the board with at most this many moves
MaxCompleteScramble == 5

\* the reusing specification moves the board at most this many times
MaxReuseMoves == 3

\* and calls search on its engine at most this many times
MaxSearchCalls == 2

\* generate_random_solvable is asked for at most this many puzzles
MaxPuzzles == 3

\* a shuffle of the generating specification is at most this many moves away from the
\* goal or from the goal with two tiles exchanged
MaxShuffleMoves == 2

\* Search.__init__'s default max_steps
DefaultMaxSteps == 10000

(***************************************************************************)
(* Helpers                                                                 *)
(***************************************************************************)
Abs(x) == IF x < 0 THEN -x ELSE x

RECURSIVE SumSeq(_)
SumSeq(q) == IF q = <<>> THEN 0 ELSE Head(q) + SumSeq(Tail(q))

Range(q) == {q[i] : i \in 1..Len(q)}

\* state[i] of the Python list (0-based)
Cell(s, i) == s[i + 1]

\* a local variable: `value` is computed once and Body works on the result
Local(value, Body(_)) == CHOOSE r \in {Body(x) : x \in {value}} : TRUE

(***************************************************************************)
(* Puzzle (src/src/puzzle.py)                                              *)
(***************************************************************************)
\* Puzzle.__init__: 9 cells -> size 3, 16 cells -> size 4
Size(s) == IF Len(s) = 9 THEN 3 ELSE 4

\* list(range(1, size_squared)) + [0]
GoalState(size) == [i \in 1..(size * size) |-> IF i = size * size THEN 0 ELSE i]

\* self.state.index(0), 0-based
BlankPos(s) == (CHOOSE i \in 1..Len(s) : s[i] = 0) - 1

\* get_blank_position
BlankRow(s) == BlankPos(s) \div Size(s)
BlankCol(s) == BlankPos(s) % Size(s)

\* get_legal_moves with the horizontal moves appended before the vertical ones
LegalMovesHorizontalFirst(s) ==
    (IF BlankCol(s) > 0 THEN <<"left">> ELSE <<>>)
    \o (IF BlankCol(s) < Size(s) - 1 THEN <<"right">> ELSE <<>>)
    \o (IF BlankRow(s) > 0 THEN <<"up">> ELSE <<>>)
    \o (IF BlankRow(s) < Size(s) - 1 THEN <<"down">> ELSE <<>>)

\* get_legal_moves: the moves in the order the code appends them
LegalMoves(s) ==
    (IF BlankRow(s) > 0 THEN <<"up">> ELSE <<>>)
    \o (IF BlankRow(s) < Size(s) - 1 THEN <<"down">> ELSE <<>>)
    \o (IF BlankCol(s) > 0 THEN <<"left">> ELSE <<>>)
    \o (IF BlankCol(s) < Size(s) - 1 THEN <<"right">> ELSE <<>>)

\* the value standing for apply_move's ValueError("Illegal move: ...")
IllegalMove == <<"ValueError: Illegal move">>

\* a swap position whose "right" case repeats the "left" one
SwapPosRightSlip(s, move) ==
    IF move = "up" THEN BlankPos(s) - Size(s)
    ELSE IF move = "down" THEN BlankPos(s) + Size(s)
    ELSE BlankPos(s) - 1

\* the position apply_move swaps the blank with
SwapPos(s, move) ==
    IF move = "up" THEN BlankPos(s) - Size(s)
    ELSE IF move = "down" THEN BlankPos(s) + Size(s)
    ELSE IF move = "left" THEN BlankPos(s) - 1
    ELSE BlankPos(s) + 1

\* apply_move: a new state with the blank and the tile at swap_pos exchanged
ApplyMove(s, move) ==
    IF move \notin Range(LegalMoves(s)) THEN IllegalMove
    ELSE [s EXCEPT ![BlankPos(s) + 1] = Cell(s, SwapPos(s, move)),
                   ![SwapPos(s, move) + 1] = 0]

\* is_goal
IsGoal(s) == s = GoalState(Size(s))

\* the inversion count with the blank counted as a tile
InversionsCountingBlank(s) ==
    Cardinality({p \in (1..Len(s)) \X (1..Len(s)) : p[1] < p[2] /\ s[p[1]] > s[p[2]]})

\* the inversion count of is_solvable: pairs i < j of non-blank tiles with tiles[i] > tiles[j]
Inversions(s) ==
    LET tiles == SelectSeq(s, LAMBDA t : t # 0)
    IN  Cardinality({p \in (1..Len(tiles)) \X (1..Len(tiles)) :
                        p[1] < p[2] /\ tiles[p[1]] > tiles[p[2]]})

\* is_solvable without the blank-row rule of the 4x4 board
IsSolvableByInversionsOnly(s) == Inversions(s) % 2 = 0

\* is_solvable
IsSolvable(s) ==
    IF Size(s) = 3 THEN Inversions(s) % 2 = 0
    ELSE LET blank_row_from_bottom == Size(s) - BlankRow(s)
         IN  IF blank_row_from_bottom % 2 = 0
             THEN Inversions(s) % 2 = 1
             ELSE Inversions(s) % 2 = 0

(***************************************************************************)
(* Heuristics (src/src/heuristics)                                         *)
(***************************************************************************)
\* misplaced tiles counted against a goal that has the blank first
misplaced_tiles_blank_first(s) ==
    Cardinality({i \in 0..(Len(s) - 1) : Cell(s, i) # 0 /\ Cell(s, i) # i})

\* misplaced_tiles
misplaced_tiles(s) ==
    Cardinality({i \in 0..(Len(s) - 1) :
                    Cell(s, i) # 0 /\ Cell(s, i) # Cell(GoalState(Size(s)), i)})

\* a tile distance that forgets the column term
TileDistanceRowsOnly(s, i) ==
    LET tile == Cell(s, i)
        goal_idx == tile - 1
    IN  IF tile = 0 THEN 0
        ELSE Abs((i \div Size(s)) - (goal_idx \div Size(s)))

\* the distance manhattan_distance adds for the tile at index i
TileDistance(s, i) ==
    LET tile == Cell(s, i)
        goal_idx == tile - 1
    IN  IF tile = 0 THEN 0
        ELSE Abs((i \div Size(s)) - (goal_idx \div Size(s)))
             + Abs((i % Size(s)) - (goal_idx % Size(s)))

\* manhattan_distance
manhattan_distance(s) == SumSeq([k \in 1..Len(s) |-> TileDistance(s, k - 1)])

\* linear_conflict's tiles_in_row: (i % size, state[row*size + i % size]) for the non-blank cells
TilesInRow(s, row) ==
    LET size == Size(s)
        all == [k \in 1..size |-> <<(k - 1) % size, Cell(s, row * size + ((k - 1) % size))>>]
    IN  SelectSeq(all, LAMBDA e : e[2] # 0)

\* linear_conflict's tiles_in_col: (i // size, state[i*size + col]) for the non-blank cells
TilesInCol(s, col) ==
    LET size == Size(s)
        all == [k \in 1..size |-> <<(k - 1) \div size, Cell(s, (k - 1) * size + col)>>]
    IN  SelectSeq(all, LAMBDA e : e[2] # 0)

\* the pairs i < j the row loop of linear_conflict counts for one row
RowConflicts(s, row) ==
    LET size == Size(s)
        t == TilesInRow(s, row)
    IN  Cardinality({p \in (1..Len(t)) \X (1..Len(t)) :
            /\ p[1] < p[2]
            /\ (t[p[1]][2] - 1) \div size = row
            /\ (t[p[2]][2] - 1) \div size = row
            /\ \/ ((t[p[1]][2] - 1) % size > (t[p[2]][2] - 1) % size /\ t[p[1]][1] < t[p[2]][1])
               \/ ((t[p[1]][2] - 1) % size < (t[p[2]][2] - 1) % size /\ t[p[1]][1] > t[p[2]][1])})

\* the pairs i < j the column loop of linear_conflict counts for one column
ColConflicts(s, col) ==
    LET size == Size(s)
        t == TilesInCol(s, col)
    IN  Cardinality({p \in (1..Len(t)) \X (1..Len(t)) :
            /\ p[1] < p[2]
            /\ (t[p[1]][2] - 1) % size = col
            /\ (t[p[2]][2] - 1) % size = col
            /\ \/ ((t[p[1]][2] - 1) \div size > (t[p[2]][2] - 1) \div size /\ t[p[1]][1] < t[p[2]][1])
               \/ ((t[p[1]][2] - 1) \div size < (t[p[2]][2] - 1) \div size /\ t[p[1]][1] > t[p[2]][1])})

\* linear_conflict: Manhattan distance plus 2 per counted pair
linear_conflict(s) ==
    manhattan_distance(s)
    + 2 * (SumSeq([k \in 1..Size(s) |-> RowConflicts(s, k - 1)])
           + SumSeq([k \in 1..Size(s) |-> ColConflicts(s, k - 1)]))

\* HEURISTICS: the names and the functions they map to
HeuristicNames == {"misplaced", "manhattan", "linear_conflict"}

Heuristic(name, s) ==
    IF name = "misplaced" THEN misplaced_tiles(s)
    ELSE IF name = "manhattan" THEN manhattan_distance(s)
    ELSE linear_conflict(s)

(***************************************************************************)
(* Start boards: the goal of each size, and its twin, the goal with its    *)
(* last two tiles exchanged.                                               *)
(***************************************************************************)
Twin(size) ==
    [i \in 1..(size * size) |->
        IF i = size * size - 2 THEN size * size - 1
        ELSE IF i = size * size - 1 THEN size * size - 2
        ELSE GoalState(size)[i]]

StartBoard(size, org) == IF org = "goal" THEN GoalState(size) ELSE Twin(size)

(***************************************************************************)
(* Search node (src/src/node.py).  A node's parent is a reference; here it *)
(* is the index of the parent in `nodes` (0 for None).                     *)
(***************************************************************************)
\* Python's None where a Node is expected, and where a move is expected
None == [none |-> TRUE]
NoMove == "None"

\* a node whose total_cost subtracts the path cost
MakeNodeSignSlip(st, cost, h, parent, move) ==
    [state |-> st, cost |-> cost, heuristic |-> h, parent |-> parent, move |-> move,
     total_cost |-> h - cost]

\* Node(...) and __post_init__: total_cost = cost + heuristic
MakeNode(st, cost, h, parent, move) ==
    [state |-> st, cost |-> cost, heuristic |-> h, parent |-> parent, move |-> move,
     total_cost |-> cost + h]

\* Node.__eq__: two nodes are equal when their states are
NodeEq(a, b) == a.state = b.state

\* Node.get_path: follow the parent links to the root, then reverse
RECURSIVE GetPath(_, _)
GetPath(arena, node) ==
    IF node.parent = 0 THEN <<node>>
    ELSE Append(GetPath(arena, arena[node.parent]), node)

\* Node.get_solution_path: the states of the path, start to goal
GetSolutionPath(arena, node) ==
    LET path == GetPath(arena, node) IN [k \in 1..Len(path) |-> path[k].state]

\* Node.get_moves_path: the moves of path[1:]
GetMovesPath(arena, node) ==
    LET path == GetPath(arena, node) IN [k \in 1..(Len(path) - 1) |-> path[k + 1].move]

\* expand with children that keep their parent's cost
ExpandSameCost(arena, self, hname) ==
    LET node == arena[self]
        moves == LegalMoves(node.state)
    IN  [k \in 1..Len(moves) |->
            [state |-> ApplyMove(node.state, moves[k]), cost |-> node.cost,
             heuristic |-> Heuristic(hname, ApplyMove(node.state, moves[k])),
             parent |-> self, move |-> moves[k],
             total_cost |-> node.cost + Heuristic(hname, ApplyMove(node.state, moves[k]))]]

\* expand that makes no child for the move "down"
ExpandWithoutDown(arena, self, hname) ==
    LET node == arena[self]
        moves == SelectSeq(LegalMoves(node.state), LAMBDA m : m # "down")
    IN  [k \in 1..Len(moves) |->
            Local(ApplyMove(node.state, moves[k]),
                  LAMBDA new_state : MakeNode(new_state, node.cost + 1,
                                              Heuristic(hname, new_state), self, moves[k]))]

\* Node.expand: one child per legal move, in the order of get_legal_moves;
\* `self` is the index of the expanded node in the arena
Expand(arena, self, hname) ==
    LET node == arena[self]
        moves == LegalMoves(node.state)
    IN  [k \in 1..Len(moves) |->
            Local(ApplyMove(node.state, moves[k]),
                  LAMBDA new_state : MakeNode(new_state, node.cost + 1,
                                              Heuristic(hname, new_state), self, moves[k]))]

(***************************************************************************)
(* Search engines (src/src/search).  An engine's state is a record; the    *)
(* step operators below map the record before a step of search() to the    *)
(* record after it.                                                        *)
(***************************************************************************)
NoResult == [not_called |-> TRUE]

\* Search.__init__
NewEngine(alg, ms) ==
    [pc |-> "idle", algorithm |-> alg, heuristic_name |-> "none", max_steps |-> ms,
     initial_state |-> <<>>, nodes |-> <<>>, open_list |-> {}, open_dict |-> <<>>,
     open_set |-> {}, closed_set |-> {}, counter |-> 0,
     nodes_expanded |-> 0, nodes_generated |-> 0, result |-> NoResult]

\* the order of the heap's entries: tuples compare by priority, then by counter
EntryLess(a, b) == a[1] < b[1] \/ (a[1] = b[1] /\ a[2] < b[2])

\* a pop that takes, among the entries of least priority, the one pushed last
HeapMinLastPushed(heap) ==
    CHOOSE e \in heap : \A o \in heap : o = e \/ e[1] < o[1] \/ (e[1] = o[1] /\ e[2] > o[2])

\* heapq.heappop: the least entry of the heap
HeapMin(heap) == CHOOSE e \in heap : \A o \in heap : o = e \/ EntryLess(e, o)

\* a while condition that admits one expansion too many
LoopConditionOffByOne(e) == e.open_list # {} /\ e.nodes_expanded <= e.max_steps

\* the while condition of both search loops
LoopCondition(e) == e.open_list # {} /\ e.nodes_expanded < e.max_steps

\* search() entering the main loop without the solvability test
BeginSearchUnchecked(e, alg, initial, hname) ==
    LET reset == [pc |-> "idle", algorithm |-> alg, heuristic_name |-> hname,
                  max_steps |-> e.max_steps, initial_state |-> initial, nodes |-> <<>>,
                  open_list |-> {}, open_dict |-> <<>>, open_set |-> {}, closed_set |-> {},
                  counter |-> 0, nodes_expanded |-> 0, nodes_generated |-> 0,
                  result |-> NoResult]
        h == Heuristic(hname, initial)
        initial_node == [state |-> initial, cost |-> 0, heuristic |-> h, parent |-> 0,
                         move |-> NoMove, total_cost |-> h]
    IN  IF IsGoal(initial)
        THEN [reset EXCEPT !.pc = "done",
                           !.result = [initial_node EXCEPT !.heuristic = 0, !.total_cost = 0]]
        ELSE [reset EXCEPT !.pc = "loop",
                           !.nodes = <<initial_node>>,
                           !.nodes_generated = 1,
                           !.open_list = {<<h, 0, 1>>},
                           !.open_dict = IF alg = "astar" THEN (initial :> 1) ELSE <<>>,
                           !.open_set = IF alg = "astar" THEN {} ELSE {initial},
                           !.counter = 1]

\* search() entering the main loop without the goal test on the initial state
BeginSearchNoGoalTest(e, alg, initial, hname) ==
    LET reset == [pc |-> "idle", algorithm |-> alg, heuristic_name |-> hname,
                  max_steps |-> e.max_steps, initial_state |-> initial, nodes |-> <<>>,
                  open_list |-> {}, open_dict |-> <<>>, open_set |-> {}, closed_set |-> {},
                  counter |-> 0, nodes_expanded |-> 0, nodes_generated |-> 0,
                  result |-> NoResult]
        h == Heuristic(hname, initial)
        initial_node == [state |-> initial, cost |-> 0, heuristic |-> h, parent |-> 0,
                         move |-> NoMove, total_cost |-> h]
    IN  IF ~IsSolvable(initial)
        THEN [reset EXCEPT !.pc = "done", !.result = None]
        ELSE [reset EXCEPT !.pc = "loop",
                           !.nodes = <<initial_node>>,
                           !.nodes_generated = 1,
                           !.open_list = {<<h, 0, 1>>},
                           !.open_dict = IF alg = "astar" THEN (initial :> 1) ELSE <<>>,
                           !.open_set = IF alg = "astar" THEN {} ELSE {initial},
                           !.counter = 1]

\* search() that goes on counting from the statistics of the call before
BeginSearchKeepStatistics(e, alg, initial, hname) ==
    LET reset == [NewEngine(alg, e.max_steps) EXCEPT
                     !.heuristic_name = hname, !.initial_state = initial,
                     !.nodes_expanded = e.nodes_expanded,
                     !.nodes_generated = e.nodes_generated]
        initial_node == MakeNode(initial, 0, Heuristic(hname, initial), 0, NoMove)
        priority == IF alg = "astar" THEN initial_node.total_cost ELSE initial_node.heuristic
    IN  IF ~IsSolvable(initial)
        THEN [reset EXCEPT !.pc = "done", !.result = None]
        ELSE IF IsGoal(initial)
        THEN [reset EXCEPT !.pc = "done", !.result = MakeNode(initial, 0, 0, 0, NoMove)]
        ELSE [reset EXCEPT !.pc = "loop",
                           !.nodes = <<initial_node>>,
                           !.nodes_generated = @ + 1,
                           !.open_list = {<<priority, 0, 1>>},
                           !.open_dict = IF alg = "astar" THEN (initial :> 1) ELSE <<>>,
                           !.open_set = IF alg = "astar" THEN {} ELSE {initial},
                           !.counter = 1]

\* search(), up to the main loop: reset the statistics, test solvability, test the goal,
\* then seed the open list (identical in both engines up to the membership structure)
BeginSearch(e, alg, initial, hname) ==
    LET reset == [NewEngine(alg, e.max_steps) EXCEPT
                     !.heuristic_name = hname, !.initial_state = initial]
        initial_node == MakeNode(initial, 0, Heuristic(hname, initial), 0, NoMove)
        priority == IF alg = "astar" THEN initial_node.total_cost ELSE initial_node.heuristic
    IN  IF ~IsSolvable(initial)
        THEN [reset EXCEPT !.pc = "done", !.result = None]
        ELSE IF IsGoal(initial)
        THEN [reset EXCEPT !.pc = "done", !.result = MakeNode(initial, 0, 0, 0, NoMove)]
        ELSE [reset EXCEPT !.pc = "loop",
                           !.nodes = <<initial_node>>,
                           !.nodes_generated = 1,
                           !.open_list = {<<priority, 0, 1>>},
                           !.open_dict = IF alg = "astar" THEN (initial :> 1) ELSE <<>>,
                           !.open_set = IF alg = "astar" THEN {} ELSE {initial},
                           !.counter = 1]

\* an A* child rule that keeps the first node of a state, whatever the costs
AStarChildKeepFirst(e, child) ==
    LET g == [e EXCEPT !.nodes_generated = @ + 1]
    IN  IF child.state \in e.closed_set THEN g
        ELSE IF child.state \in DOMAIN e.open_dict THEN g
        ELSE [g EXCEPT !.nodes = Append(@, child),
                       !.open_dict = (child.state :> (Len(e.nodes) + 1)) @@ @,
                       !.open_list = @ \cup {<<child.total_cost, e.counter, Len(e.nodes) + 1>>},
                       !.counter = @ + 1]

\* A*: the body of `for child_node in current_node.expand(...)` for one child
AStarChild(e, child) ==
    LET g == [e EXCEPT !.nodes_generated = @ + 1]
    IN  IF child.state \in e.closed_set THEN g
        ELSE IF child.state \in DOMAIN e.open_dict
                /\ e.nodes[e.open_dict[child.state]].cost <= child.cost THEN g
        ELSE [g EXCEPT !.nodes = Append(@, child),
                       !.open_dict = (child.state :> (Len(e.nodes) + 1)) @@ @,
                       !.open_list = @ \cup {<<child.total_cost, e.counter, Len(e.nodes) + 1>>},
                       !.counter = @ + 1]

RECURSIVE AStarChildren(_, _)
AStarChildren(e, children) ==
    IF children = <<>> THEN e
    ELSE Local(AStarChild(e, Head(children)),
               LAMBDA after : AStarChildren(after, Tail(children)))

\* A* that expands every popped node that is no goal
AStarIterateEveryPop(e) ==
    Local(HeapMin(e.open_list), LAMBDA entry :
        LET self == entry[3]
            current_node == e.nodes[self]
            state_tuple == current_node.state
            popped == [e EXCEPT !.open_list = @ \ {entry}]
        IN  IF IsGoal(current_node.state)
            THEN [popped EXCEPT !.pc = "done", !.result = current_node]
            ELSE Local([popped EXCEPT
                           !.open_dict = [k \in (DOMAIN @) \ {state_tuple} |-> @[k]],
                           !.closed_set = @ \cup {state_tuple},
                           !.nodes_expanded = @ + 1],
                       LAMBDA expanding :
                           Local(Expand(e.nodes, self, e.heuristic_name),
                                 LAMBDA children : AStarChildren(expanding, children))))

\* A*: one iteration of the main loop
AStarIterate(e) ==
    Local(HeapMin(e.open_list), LAMBDA entry :
        LET self == entry[3]
            current_node == e.nodes[self]
            state_tuple == current_node.state
            popped == [e EXCEPT !.open_list = @ \ {entry}]
        IN  IF IsGoal(current_node.state)
            THEN [popped EXCEPT !.pc = "done", !.result = current_node]
            ELSE IF state_tuple \in DOMAIN e.open_dict
                    /\ NodeEq(e.nodes[e.open_dict[state_tuple]], current_node)
            THEN Local([popped EXCEPT
                           !.open_dict = [k \in (DOMAIN @) \ {state_tuple} |-> @[k]],
                           !.closed_set = @ \cup {state_tuple},
                           !.nodes_expanded = @ + 1],
                       LAMBDA expanding :
                           Local(Expand(e.nodes, self, e.heuristic_name),
                                 LAMBDA children : AStarChildren(expanding, children)))
            ELSE popped)

\* a best-first child rule without the open-set test
BestFirstChildPushAgain(e, child) ==
    LET g == [e EXCEPT !.nodes_generated = @ + 1]
    IN  IF child.state \in e.closed_set THEN g
        ELSE [g EXCEPT !.nodes = Append(@, child),
                       !.open_list = @ \cup {<<child.heuristic, e.counter, Len(e.nodes) + 1>>},
                       !.open_set = @ \cup {child.state},
                       !.counter = @ + 1]

\* best-first: the body of the for loop for one child
BestFirstChild(e, child) ==
    LET g == [e EXCEPT !.nodes_generated = @ + 1]
    IN  IF child.state \in e.closed_set THEN g
        ELSE IF child.state \in e.open_set THEN g
        ELSE [g EXCEPT !.nodes = Append(@, child),
                       !.open_list = @ \cup {<<child.heuristic, e.counter, Len(e.nodes) + 1>>},
                       !.open_set = @ \cup {child.state},
                       !.counter = @ + 1]

RECURSIVE BestFirstChildren(_, _)
BestFirstChildren(e, children) ==
    IF children = <<>> THEN e
    ELSE Local(BestFirstChild(e, Head(children)),
               LAMBDA after : BestFirstChildren(after, Tail(children)))

\* best-first: one iteration of the main loop; open_set.remove raises KeyError
\* when the state is not in the set
BestFirstIterate(e) ==
    Local(HeapMin(e.open_list), LAMBDA entry :
        LET self == entry[3]
            current_node == e.nodes[self]
            state_tuple == current_node.state
            popped == [e EXCEPT !.open_list = @ \ {entry}, !.open_set = @ \ {state_tuple}]
        IN  IF state_tuple \notin e.open_set
            THEN [e EXCEPT !.open_list = @ \ {entry}, !.pc = "KeyError"]
            ELSE IF IsGoal(current_node.state)
            THEN [popped EXCEPT !.pc = "done", !.result = current_node]
            ELSE Local([popped EXCEPT !.closed_set = @ \cup {state_tuple},
                                      !.nodes_expanded = @ + 1],
                       LAMBDA expanding :
                           Local(Expand(e.nodes, self, e.heuristic_name),
                                 LAMBDA children : BestFirstChildren(expanding, children))))

\* a loop exit that returns a goal node when the open list holds one
GiveUpUnlessGoalQueued(e) ==
    IF \E o \in e.open_list : IsGoal(e.nodes[o[3]].state)
    THEN [e EXCEPT !.pc = "done",
                   !.result = e.nodes[(CHOOSE o \in e.open_list : IsGoal(e.nodes[o[3]].state))[3]]]
    ELSE [e EXCEPT !.pc = "done", !.result = None]

\* the loop ended without returning a node: return None
GiveUp(e) == [e EXCEPT !.pc = "done", !.result = None]

\* one step of search() once the loop is entered
SearchStep(e) ==
    IF ~LoopCondition(e) THEN GiveUp(e)
    ELSE IF e.algorithm = "astar" THEN AStarIterate(e)
    ELSE BestFirstIterate(e)

\* the while loop of search(), run for at most n steps from e; the steps are split in
\* two halves so that the evaluation nests only as deep as the logarithm of n
RECURSIVE RunSteps(_, _)
RunSteps(e, n) ==
    IF e.pc # "loop" \/ n = 0 THEN e
    ELSE IF n = 1 THEN SearchStep(e)
    ELSE RunSteps(RunSteps(e, n \div 2), n - (n \div 2))

\* search() from the call to the return.  Every iteration pops one heap entry, and at
\* most 1 + 4 * max_steps entries are ever pushed (the initial node, and at most four
\* children per expansion), so the loop has returned after 4 * max_steps + 2 steps.
RunSearch(alg, ms, initial, hname) ==
    RunSteps(BeginSearch(NewEngine(alg, ms), alg, initial, hname), 4 * ms + 2)

(***************************************************************************)
(* run_experiment (src/src/cli.py): what it reports about a finished search*)
(***************************************************************************)
SolutionFound(e) == e.result # None

\* a solution length that counts the states of the path instead of its moves
SolutionLengthInStates(e) ==
    IF e.result # None THEN Len(GetSolutionPath(e.nodes, e.result)) ELSE None

\* solution_length: len(path) - 1
SolutionLength(e) ==
    IF e.result # None THEN Len(GetSolutionPath(e.nodes, e.result)) - 1 ELSE None

(***************************************************************************)
(* The engine of the behaviour: the variables as a record, and back.       *)
(***************************************************************************)
Engine ==
    [pc |-> pc, algorithm |-> algorithm, heuristic_name |-> heuristic_name,
     max_steps |-> max_steps, initial_state |-> initial_state, nodes |-> nodes,
     open_list |-> open_list, open_dict |-> open_dict, open_set |-> open_set,
     closed_set |-> closed_set, counter |-> counter,
     nodes_expanded |-> nodes_expanded, nodes_generated |-> nodes_generated,
     result |-> result]

SetEngine(e) ==
    /\ pc' = e.pc
    /\ algorithm' = e.algorithm
    /\ heuristic_name' = e.heuristic_name
    /\ max_steps' = e.max_steps
    /\ initial_state' = e.initial_state
    /\ nodes' = e.nodes
    /\ open_list' = e.open_list
    /\ open_dict' = e.open_dict
    /\ open_set' = e.open_set
    /\ closed_set' = e.closed_set
    /\ counter' = e.counter
    /\ nodes_expanded' = e.nodes_expanded
    /\ nodes_generated' = e.nodes_generated
    /\ result' = e.result

\* no engine has been asked to search yet
SearchIdle ==
    LET e == NewEngine("none", DefaultMaxSteps)
    IN  /\ pc = e.pc
        /\ algorithm = e.algorithm
        /\ heuristic_name = e.heuristic_name
        /\ max_steps = e.max_steps
        /\ initial_state = e.initial_state
        /\ nodes = e.nodes
        /\ open_list = e.open_list
        /\ open_dict = e.open_dict
        /\ open_set = e.open_set
        /\ closed_set = e.closed_set
        /\ counter = e.counter
        /\ nodes_expanded = e.nodes_expanded
        /\ nodes_generated = e.nodes_generated
        /\ result = e.result
        /\ search_calls = 0

(***************************************************************************)
(* Puzzle objects and the calls that make them.  A call is recorded with   *)
(* what it raised (<<>> when it raised nothing) and what it returned (None *)
(* when it raised).  A text is the sequence of the tokens that             *)
(* state_str.strip().split() yields.                                       *)
(***************************************************************************)
NotRaised == <<>>

LengthError == <<"ValueError: State must have exactly 9 elements (8-puzzle) or 16 elements (15-puzzle)">>

ContentError == <<"ValueError: State must contain exactly the numbers 0-max_value">>

FormatError == <<"ValueError: Invalid state string format">>

\* the object whose fields __init__ sets for the list s
PuzzleObject(s) == [state |-> s, size |-> Size(s), blank_pos |-> BlankPos(s)]

RECURSIVE Insert(_, _)
Insert(x, q) ==
    IF q = <<>> THEN <<x>>
    ELSE IF x <= Head(q) THEN <<x>> \o q
    ELSE <<Head(q)>> \o Insert(x, Tail(q))

\* sorted(q)
RECURSIVE Sorted(_)
Sorted(q) == IF q = <<>> THEN <<>> ELSE Insert(Head(q), Sorted(Tail(q)))

\* a constructor that tests the length and that every value is one of 0..max_value
ConstructByRange(seq) ==
    IF Len(seq) \notin {9, 16}
    THEN [raised |-> LengthError, returned |-> None]
    ELSE IF \E k \in 1..Len(seq) : seq[k] < 0 \/ seq[k] > Len(seq) - 1
         THEN [raised |-> ContentError, returned |-> None]
         ELSE [raised |-> NotRaised, returned |-> PuzzleObject(seq)]

\* Puzzle(seq)
Construct(seq) ==
    IF Len(seq) \notin {9, 16}
    THEN [raised |-> LengthError, returned |-> None]
    ELSE LET max_value == Len(seq) - 1
             expected_values == [k \in 1..(max_value + 1) |-> k - 1]
             InRange(x) == x >= 0 /\ x <= max_value
         IN  IF Sorted(SelectSeq(seq, InRange)) # expected_values
             THEN [raised |-> ContentError, returned |-> None]
             ELSE [raised |-> NotRaised, returned |-> PuzzleObject(seq)]

\* the integers whose decimal numerals a text of this model may hold
IntLiterals == (-1)..17

IsIntToken(t) == \E n \in IntLiterals : ToString(n) = t

\* int(x)
ParseInt(t) == CHOOSE n \in IntLiterals : ToString(n) = t

\* Puzzle.from_string on the tokens of state_str: the list comprehension and the
\* constructor both run inside the try, whose handler catches ValueError
FromString(tokens) ==
    IF \E k \in 1..Len(tokens) : ~IsIntToken(tokens[k])
    THEN [raised |-> FormatError, returned |-> None]
    ELSE LET made == Construct([k \in 1..Len(tokens) |-> ParseInt(tokens[k])])
         IN  IF made.raised # NotRaised
             THEN [raised |-> FormatError, returned |-> None]
             ELSE made

\* apply_move that tests the label against the four directions only
apply_move_any_direction(self, move) ==
    IF move \notin {"up", "down", "left", "right"}
    THEN [raised |-> IllegalMove, returned |-> None, self |-> self]
    ELSE LET made == Construct(ApplyMove(self.state, move))
         IN  [raised |-> made.raised, returned |-> made.returned, self |-> self]

\* apply_move that swaps the two cells in self.state itself
apply_move_in_place(self, move) ==
    IF move \notin Range(LegalMoves(self.state))
    THEN [raised |-> IllegalMove, returned |-> None, self |-> self]
    ELSE LET made == Construct(ApplyMove(self.state, move))
         IN  [raised |-> made.raised, returned |-> made.returned,
              self |-> [self EXCEPT !.state = ApplyMove(self.state, move)]]

\* self.apply_move(move): what it raised, what it returned, and self after the call
apply_move(self, move) ==
    IF move \notin Range(LegalMoves(self.state))
    THEN [raised |-> IllegalMove, returned |-> None, self |-> self]
    ELSE LET made == Construct(ApplyMove(self.state, move))
         IN  [raised |-> made.raised, returned |-> made.returned, self |-> self]

NoCall == [op |-> "none", arg |-> <<>>, self |-> None, self_after |-> None,
           raised |-> NotRaised, returned |-> None]

CallIdle == call = NoCall

GenIdle ==
    /\ gen_pc = "idle"
    /\ gen_n = 0
    /\ gen_size = 0
    /\ unique_states = {}
    /\ gen_result = <<>>
    /\ gen_raised = NotRaised

(***************************************************************************)
(* The walker: a caller applying legal moves to a board.                   *)
(***************************************************************************)
InitMoves ==
    /\ \E size \in {3, 4}, org \in {"goal", "twin"} :
          /\ state = StartBoard(size, org)
          /\ origin = org
    /\ depth = 0
    /\ SearchIdle
    /\ CallIdle
    /\ GenIdle

\* puzzle = puzzle.apply_move(move) for a move of get_legal_moves()
Move(move) ==
    /\ pc = "idle"
    /\ move \in Range(LegalMoves(state))
    /\ state' = ApplyMove(state, move)
    /\ depth' = depth + 1
    /\ UNCHANGED <<origin, searchVars, callVars, genVars, search_calls>>

NextMoves ==
    /\ depth < MaxDepth
    /\ \E move \in {"up", "down", "left", "right"} : Move(move)

SpecMoves == InitMoves /\ [][NextMoves]_vars

(***************************************************************************)
(* The exhaustive walker: on a 3x3 board it does not count its moves, so   *)
(* it visits every board that legal moves reach from the start board; on a *)
(* 4x4 board it counts them and stops after MaxDepth moves.                *)
(***************************************************************************)
Slide(move) ==
    /\ pc = "idle"
    /\ move \in Range(LegalMoves(state))
    /\ state' = ApplyMove(state, move)
    /\ depth' = IF Size(state) = 3 THEN depth ELSE depth + 1
    /\ UNCHANGED <<origin, searchVars, callVars, genVars, search_calls>>

NextReach ==
    /\ Size(state) = 3 \/ depth < MaxDepth
    /\ \E move \in {"up", "down", "left", "right"} : Slide(move)

SpecReach == InitMoves /\ [][NextReach]_vars

(***************************************************************************)
(* Searches: a caller scrambles a start board with at most MaxScramble     *)
(* legal moves, then builds an engine with a step budget and calls search  *)
(* on the board; the loop then runs one iteration per step.  `depth` is    *)
(* the number of moves applied, so the start board is at most `depth`      *)
(* moves away from `state`.                                                *)
(***************************************************************************)
StepBudgets == (0..MaxSmallSteps) \cup {DefaultMaxSteps}

\* one scrambling move before any search is called
Scramble(move) ==
    /\ depth < MaxScramble
    /\ Move(move)

\* AStarSearch(max_steps).search(puzzle, heuristic) up to the main loop
AStarBegin(hname, ms) ==
    /\ pc = "idle"
    /\ SetEngine(BeginSearch(NewEngine("astar", ms), "astar", state, hname))
    /\ search_calls' = search_calls + 1
    /\ UNCHANGED <<state, origin, depth, callVars, genVars>>

\* BestFirstSearch(max_steps).search(puzzle, heuristic) up to the main loop
BestFirstBegin(hname, ms) ==
    /\ pc = "idle"
    /\ SetEngine(BeginSearch(NewEngine("best-first", ms), "best-first", state, hname))
    /\ search_calls' = search_calls + 1
    /\ UNCHANGED <<state, origin, depth, callVars, genVars>>

\* one iteration of A*'s while loop
AStarIteration ==
    /\ pc = "loop"
    /\ algorithm = "astar"
    /\ LoopCondition(Engine)
    /\ \E next \in {AStarIterate(Engine)} : SetEngine(next)
    /\ UNCHANGED <<state, origin, depth, callVars, genVars, search_calls>>

\* one iteration of best-first's while loop
BestFirstIteration ==
    /\ pc = "loop"
    /\ algorithm = "best-first"
    /\ LoopCondition(Engine)
    /\ \E next \in {BestFirstIterate(Engine)} : SetEngine(next)
    /\ UNCHANGED <<state, origin, depth, callVars, genVars, search_calls>>

\* the while condition is false: search returns None
LoopExit ==
    /\ pc = "loop"
    /\ ~LoopCondition(Engine)
    /\ SetEngine(GiveUp(Engine))
    /\ UNCHANGED <<state, origin, depth, callVars, genVars, search_calls>>

InitSearch == InitMoves

NextSearch ==
    \/ \E move \in {"up", "down", "left", "right"} : Scramble(move)
    \/ \E hname \in HeuristicNames, ms \in StepBudgets : AStarBegin(hname, ms)
    \/ \E hname \in HeuristicNames, ms \in StepBudgets : BestFirstBegin(hname, ms)
    \/ AStarIteration
    \/ BestFirstIteration
    \/ LoopExit

Spec == InitSearch /\ [][NextSearch]_vars

(***************************************************************************)
(* One long scramble: the caller replays a fixed sequence of 22 legal      *)
(* moves on the 3x3 goal (no shorter sequence reaches the same board), and *)
(* may hand the board it holds to A* with the linear-conflict heuristic;   *)
(* a call of search is one step here.                                      *)
(***************************************************************************)
HardScramble ==
    <<"up", "left", "left", "up", "right", "right", "down", "down", "left", "up", "up",
      "left", "down", "right", "right", "up", "left", "left", "down", "right", "up", "left">>

InitReplay ==
    /\ state = GoalState(3)
    /\ origin = "goal"
    /\ depth = 0
    /\ SearchIdle
    /\ CallIdle
    /\ GenIdle

\* the next move of the scramble
Replay ==
    /\ depth < Len(HardScramble)
    /\ Move(HardScramble[depth + 1])

\* AStarSearch(max_steps).search(puzzle, heuristic), from the call to the return
AStarSearchCall(hname, ms) ==
    /\ pc = "idle"
    /\ SetEngine(RunSearch("astar", ms, state, hname))
    /\ search_calls' = search_calls + 1
    /\ UNCHANGED <<state, origin, depth, callVars, genVars>>

NextReplay ==
    \/ Replay
    \/ \E ms \in StepBudgets : AStarSearchCall("linear_conflict", ms)

SpecReplay == InitReplay /\ [][NextReplay]_vars

(***************************************************************************)
(* The calling specification: a caller that holds a Puzzle makes MaxCalls  *)
(* calls: apply_move with any label, and the constructor and from_string   *)
(* with lists and texts made from the board it holds: the board itself,    *)
(* the board with one cell replaced, shortened, lengthened, or empty.      *)
(***************************************************************************)
MoveLabels == {"up", "down", "left", "right", "diagonal"}

\* the values a cell is replaced by: negative, beyond the largest tile, a duplicate
Replacements(s) == {-1, Len(s), s[1]}

\* the cells that are replaced: the first two and the last
ReplacedCells(s) == {1, 2, Len(s)}

ConstructInputs(s) ==
    {s, <<>>, SubSeq(s, 1, Len(s) - 1), Append(s, Len(s)), Append(s, 0)}
        \cup {[s EXCEPT ![i] = v] : i \in ReplacedCells(s), v \in Replacements(s)}

\* str(x) for each element
Tokens(q) == [k \in 1..Len(q) |-> ToString(q[k])]

\* tokens that int() rejects
JunkTokens == {"x", "1.5"}

TextInputs(s) ==
    {Tokens(q) : q \in ConstructInputs(s)}
        \cup {[Tokens(s) EXCEPT ![i] = t] : i \in ReplacedCells(s), t \in JunkTokens}
        \cup {[Tokens(SubSeq(s, 1, Len(s) - 1)) EXCEPT ![1] = t] : t \in JunkTokens}

\* puzzle.apply_move(move), by a caller that goes on with the returned Puzzle, or with
\* the one it holds when the call raised
ApplyMoveCall(move) ==
    /\ pc = "idle"
    /\ depth < MaxCalls
    /\ \E r \in {apply_move(PuzzleObject(state), move)} :
          /\ call' = [op |-> "apply_move", arg |-> move, self |-> PuzzleObject(state),
                      self_after |-> r.self, raised |-> r.raised, returned |-> r.returned]
          /\ state' = IF r.raised = NotRaised THEN r.returned.state ELSE r.self.state
    /\ depth' = depth + 1
    /\ UNCHANGED <<origin, searchVars, genVars, search_calls>>

\* Puzzle(seq)
ConstructCall(seq) ==
    /\ pc = "idle"
    /\ depth < MaxCalls
    /\ \E r \in {Construct(seq)} :
          call' = [op |-> "Construct", arg |-> seq, self |-> None, self_after |-> None,
                   raised |-> r.raised, returned |-> r.returned]
    /\ depth' = depth + 1
    /\ UNCHANGED <<state, origin, searchVars, genVars, search_calls>>

\* Puzzle.from_string(state_str)
FromStringCall(tokens) ==
    /\ pc = "idle"
    /\ depth < MaxCalls
    /\ \E r \in {FromString(tokens)} :
          call' = [op |-> "from_string", arg |-> tokens, self |-> None, self_after |-> None,
                   raised |-> r.raised, returned |-> r.returned]
    /\ depth' = depth + 1
    /\ UNCHANGED <<state, origin, searchVars, genVars, search_calls>>

NextCalls ==
    \/ \E move \in MoveLabels : ApplyMoveCall(move)
    \/ \E seq \in ConstructInputs(state) : ConstructCall(seq)
    \/ \E tokens \in TextInputs(state) : FromStringCall(tokens)

SpecCalls == InitMoves /\ [][NextCalls]_vars

(***************************************************************************)
(* The generating specification: generate_random_solvable(n, size), one    *)
(* iteration of its loop per step.  random.shuffle may leave the list in   *)
(* any order; here it leaves one of the boards within MaxShuffleMoves      *)
(* moves of the goal (solvable) or of the goal with two tiles exchanged    *)
(* (unsolvable).                                                           *)
(***************************************************************************)
CountError == <<"ValueError: Number of puzzles must be positive">>

SizeError == <<"ValueError: Only puzzles of size 3 (8-puzzle) or 4 (15-puzzle) are supported">>

\* the boards of S and the boards one legal move away from them
Neighbours(S) == S \cup UNION {{ApplyMove(s, m) : m \in Range(LegalMoves(s))} : s \in S}

RECURSIVE Within(_, _)
Within(S, k) == IF k = 0 THEN S ELSE Within(Neighbours(S), k - 1)

\* the orders random.shuffle leaves a list of size * size cells in
ShufflePool(size) == Within({GoalState(size), Twin(size)}, MaxShuffleMoves)

\* the test that appends a puzzle whatever the set of states holds
AcceptsSolvable(puzzle, seen) == IsSolvable(puzzle.state)

\* puzzle.is_solvable() and state_tuple not in unique_states
Accepts(puzzle, seen) == IsSolvable(puzzle.state) /\ puzzle.state \notin seen

InitGenerate ==
    /\ state = GoalState(3)
    /\ origin = "goal"
    /\ depth = 0
    /\ SearchIdle
    /\ CallIdle
    /\ GenIdle

\* Puzzle.generate_random_solvable(n, size), up to the loop
GenerateCall(n, size) ==
    /\ gen_pc = "idle"
    /\ gen_n' = n
    /\ gen_size' = size
    /\ IF n <= 0
       THEN gen_pc' = "error" /\ gen_raised' = CountError
       ELSE IF size \notin {3, 4}
            THEN gen_pc' = "error" /\ gen_raised' = SizeError
            ELSE gen_pc' = "loop" /\ gen_raised' = NotRaised
    /\ unique_states' = {}
    /\ gen_result' = <<>>
    /\ UNCHANGED <<state, origin, depth, searchVars, callVars, search_calls>>

\* one iteration of the while loop, with the order random.shuffle left
GenerateIterate(shuffled) ==
    /\ gen_pc = "loop"
    /\ Len(gen_result) < gen_n
    /\ \E puzzle \in {Construct(shuffled).returned} :
          IF Accepts(puzzle, unique_states)
          THEN /\ unique_states' = unique_states \cup {puzzle.state}
               /\ gen_result' = Append(gen_result, puzzle)
          ELSE UNCHANGED <<unique_states, gen_result>>
    /\ UNCHANGED <<gen_pc, gen_n, gen_size, gen_raised>>
    /\ UNCHANGED <<state, origin, depth, searchVars, callVars, search_calls>>

\* the loop condition fails: return result
GenerateReturn ==
    /\ gen_pc = "loop"
    /\ ~(Len(gen_result) < gen_n)
    /\ gen_pc' = "done"
    /\ UNCHANGED <<gen_n, gen_size, unique_states, gen_result, gen_raised>>
    /\ UNCHANGED <<state, origin, depth, searchVars, callVars, search_calls>>

NextGenerate ==
    \/ \E n \in (-1)..MaxPuzzles, size \in 2..5 : GenerateCall(n, size)
    \/ gen_pc = "loop" /\ \E shuffled \in ShufflePool(gen_size) : GenerateIterate(shuffled)
    \/ GenerateReturn

SpecGenerate == InitGenerate /\ [][NextGenerate]_vars

(***************************************************************************)
(* The reusing specification: a caller constructs one engine, and calls    *)
(* search on it several times, moving the board it holds in between.  A    *)
(* call of search is one step here.                                        *)
(***************************************************************************)
\* AStarSearch(max_steps) or BestFirstSearch(max_steps)
ConstructEngine(alg, ms) ==
    /\ algorithm = "none"
    /\ SetEngine(NewEngine(alg, ms))
    /\ UNCHANGED <<state, origin, depth, callVars, genVars, search_calls>>

\* engine.search(puzzle, heuristic) on the engine as the call before left it, from the
\* call to the return
SearchCall(hname) ==
    /\ algorithm # "none"
    /\ pc \in {"idle", "done"}
    /\ search_calls < MaxSearchCalls
    /\ SetEngine(RunSteps(BeginSearch(Engine, algorithm, state, hname), 4 * max_steps + 2))
    /\ search_calls' = search_calls + 1
    /\ UNCHANGED <<state, origin, depth, callVars, genVars>>

\* puzzle = puzzle.apply_move(move) between two calls of search
Reposition(move) ==
    /\ depth < MaxReuseMoves
    /\ move \in Range(LegalMoves(state))
    /\ state' = ApplyMove(state, move)
    /\ depth' = depth + 1
    /\ UNCHANGED <<origin, searchVars, callVars, genVars, search_calls>>

NextReuse ==
    \/ \E alg \in {"astar", "best-first"}, ms \in StepBudgets : ConstructEngine(alg, ms)
    \/ \E hname \in HeuristicNames : SearchCall(hname)
    \/ \E move \in {"up", "down", "left", "right"} : Reposition(move)

SpecReuse == InitMoves /\ [][NextReuse]_vars

(***************************************************************************)
(* The completing specification: searches of 3x3 boards with a step budget *)
(* larger than the number of boards that moves can reach from a 3x3 board  *)
(* (half of the 9! arrangements), or with no budget at all.  A loop that   *)
(* can run an iteration, or leave, does so.                                *)
(***************************************************************************)
RECURSIVE Factorial(_)
Factorial(n) == IF n = 0 THEN 1 ELSE n * Factorial(n - 1)

AmpleMaxSteps == (Factorial(9) \div 2) + 1

CompleteBudgets == {0, AmpleMaxSteps}

InitComplete ==
    /\ InitMoves
    /\ Size(state) = 3

\* one scrambling move before any search is called
ScrambleBriefly(move) ==
    /\ depth < MaxCompleteScramble
    /\ Move(move)

NextComplete ==
    \/ \E move \in {"up", "down", "left", "right"} : ScrambleBriefly(move)
    \/ \E hname \in HeuristicNames, ms \in CompleteBudgets : AStarBegin(hname, ms)
    \/ \E hname \in HeuristicNames, ms \in CompleteBudgets : BestFirstBegin(hname, ms)
    \/ AStarIteration
    \/ BestFirstIteration
    \/ LoopExit

SpecComplete ==
    /\ InitComplete
    /\ [][NextComplete]_vars
    /\ WF_vars(AStarIteration)
    /\ WF_vars(BestFirstIteration)
    /\ WF_vars(LoopExit)

(***************************************************************************)
(* The detour specification: the caller walks twelve moves from the 3x3    *)
(* goal to the board 1 2 3 8 7 6 0 5 4 (no shorter sequence reaches it),   *)
(* and may hand the board it holds to either search, which then runs       *)
(* iteration by iteration.  On the last board A* finds a cheaper path to a *)
(* state it had already queued.                                            *)
(***************************************************************************)
DetourScramble ==
    <<"up", "left", "left", "down", "right", "up", "right", "down", "left", "up", "left",
      "down">>

\* the next move of the walk
Detour ==
    /\ depth < Len(DetourScramble)
    /\ Move(DetourScramble[depth + 1])

NextDetour ==
    \/ Detour
    \/ \E hname \in HeuristicNames, ms \in StepBudgets : AStarBegin(hname, ms)
    \/ \E hname \in HeuristicNames, ms \in StepBudgets : BestFirstBegin(hname, ms)
    \/ AStarIteration
    \/ BestFirstIteration
    \/ LoopExit

SpecDetour == InitReplay /\ [][NextDetour]_vars

(***************************************************************************)
(* Claims                                                                  *)
(***************************************************************************)
\* C1: A* optimality on 3x3 boards: when A* returns a node for a 3x3 board, for any of
\* the three heuristics, its path has as many moves as a shortest move sequence from
\* the board to the goal.  The board was produced by `depth` legal moves from the goal,
\* and moves can be undone, so a shortest sequence has at most `depth` moves.
C1_AStarOptimal ==
    (pc = "done" /\ algorithm = "astar" /\ Len(initial_state) = 9 /\ SolutionFound(Engine))
        => SolutionLength(Engine) <= depth

\* C2: admissibility: on a solvable board none of the three heuristics exceeds the
\* number of moves of a shortest move sequence to the goal.  A board the walker reached
\* from the goal in `depth` moves is at most `depth` moves away from it.
C2_Admissible ==
    origin = "goal" => \A h \in HeuristicNames : Heuristic(h, state) <= depth

\* C3: consistency: for every board s, every legal move m and each of the three
\* heuristics h, h(s) <= 1 + h(ApplyMove(s, m)).
C3_Consistent ==
    \A h \in HeuristicNames, m \in Range(LegalMoves(state)) :
        Heuristic(h, state) <= 1 + Heuristic(h, ApplyMove(state, m))

C5_AStarNoLonger ==
    (pc = "done" /\ algorithm = "best-first" /\ SolutionFound(Engine))
        => \E a \in {RunSearch("astar", DefaultMaxSteps, initial_state, heuristic_name)} :
              /\ SolutionFound(a)
              /\ SolutionLength(a) <= SolutionLength(Engine)

\* best-first returned a path longer than the scramble, hence longer than A*'s
C5_Witness ==
    /\ pc = "done"
    /\ algorithm = "best-first"
    /\ SolutionFound(Engine)
    /\ SolutionLength(Engine) > depth

C7_UnsolvableReturnsNone ==
    (pc # "idle" /\ ~IsSolvable(initial_state))
        => /\ pc = "done"
           /\ result = None
           /\ nodes_expanded = 0
           /\ nodes_generated = 0

C7_Witness ==
    /\ pc = "done"
    /\ ~IsSolvable(initial_state)
    /\ Len(initial_state) = 16
    /\ depth > 0
    /\ algorithm = "best-first"

\* C8: when the initial state is the goal, either search returns at once, for any
\* max_steps including 0, a node of cost 0 without parent and without move, whose
\* path is the initial state alone, and no node is expanded.
C8_GoalReturnsAtOnce ==
    (pc # "idle" /\ IsGoal(initial_state))
        => /\ pc = "done"
           /\ SolutionFound(Engine)
           /\ result.cost = 0
           /\ result.parent = 0
           /\ result.move = NoMove
           /\ GetSolutionPath(nodes, result) = <<initial_state>>
           /\ nodes_expanded = 0

C8_Witness ==
    /\ pc = "done"
    /\ IsGoal(initial_state)
    /\ max_steps = 0
    /\ SolutionFound(Engine)
    /\ depth > 0

C10_PathValid ==
    (pc = "done" /\ SolutionFound(Engine))
        => \E path \in {GetPath(nodes, result)} :
              /\ path[1].state = initial_state
              /\ path[1].move = NoMove
              /\ IsGoal(path[Len(path)].state)
              /\ GetSolutionPath(nodes, result) = [k \in 1..Len(path) |-> path[k].state]
              /\ \A k \in 2..Len(path) :
                    /\ path[k].move \in {"up", "down", "left", "right"}
                    /\ path[k].move \in Range(LegalMoves(path[k - 1].state))
                    /\ path[k].state = ApplyMove(path[k - 1].state, path[k].move)
              /\ Len(GetMovesPath(nodes, result)) = result.cost
              /\ Len(path) - 1 = result.cost

C10_Witness ==
    /\ pc = "done"
    /\ SolutionFound(Engine)
    /\ algorithm = "astar"
    /\ heuristic_name = "misplaced"
    /\ Len(initial_state) = 16
    /\ result.cost = MaxScramble

\* C11: heuristic dominance: on every board of either size, solvable or not,
\* misplaced <= manhattan <= linear_conflict, and the three values are non-negative
\* integers.
C11_Dominance ==
    /\ misplaced_tiles(state) \in Nat
    /\ manhattan_distance(state) \in Nat
    /\ linear_conflict(state) \in Nat
    /\ misplaced_tiles(state) <= manhattan_distance(state)
    /\ manhattan_distance(state) <= linear_conflict(state)

\* an unsolvable 4x4 board on which both inequalities are strict
C11_Witness ==
    /\ origin = "twin"
    /\ Size(state) = 4
    /\ 0 < misplaced_tiles(state)
    /\ misplaced_tiles(state) < manhattan_distance(state)
    /\ manhattan_distance(state) < linear_conflict(state)

\* the fixture boards of the heuristics' tests, with the values the tests assert
HeuristicFixtures ==
    {[board |-> <<1, 2, 3, 4, 5, 6, 7, 8, 0>>,
      misplaced |-> 0, manhattan |-> 0, linear_conflict |-> 0],
     [board |-> <<1, 2, 3, 4, 5, 6, 7, 0, 8>>,
      misplaced |-> 1, manhattan |-> 1, linear_conflict |-> 1],
     [board |-> <<1, 2, 3, 0, 5, 6, 4, 7, 8>>,
      misplaced |-> 3, manhattan |-> 3, linear_conflict |-> 3],
     [board |-> <<8, 7, 6, 5, 4, 3, 2, 1, 0>>,
      misplaced |-> 8, manhattan |-> 16, linear_conflict |-> 18],
     [board |-> <<1, 2, 3, 4, 5, 6, 7, 8, 9, 10, 11, 12, 13, 14, 15, 0>>,
      misplaced |-> 0, manhattan |-> 0, linear_conflict |-> 0],
     [board |-> <<1, 2, 3, 4, 5, 6, 7, 8, 9, 10, 11, 12, 13, 14, 0, 15>>,
      misplaced |-> 1, manhattan |-> 1, linear_conflict |-> 1],
     [board |-> <<1, 2, 3, 4, 5, 6, 7, 8, 9, 0, 11, 12, 13, 14, 10, 15>>,
      misplaced |-> 2, manhattan |-> 3, linear_conflict |-> 3]}

\* the linear-conflict pairs of a board along its rows: two tiles of one row, both with
\* that row as goal row, whose goal columns are in the reverse of their order in the row
RowConflictPairs(s) ==
    Cardinality({p \in (0..(Len(s) - 1)) \X (0..(Len(s) - 1)) :
        /\ p[1] < p[2]
        /\ Cell(s, p[1]) # 0 /\ Cell(s, p[2]) # 0
        /\ p[1] \div Size(s) = p[2] \div Size(s)
        /\ (Cell(s, p[1]) - 1) \div Size(s) = p[1] \div Size(s)
        /\ (Cell(s, p[2]) - 1) \div Size(s) = p[1] \div Size(s)
        /\ (Cell(s, p[1]) - 1) % Size(s) > (Cell(s, p[2]) - 1) % Size(s)})

\* the same along the columns: two tiles of one column, both with that column as goal
\* column, whose goal rows are in the reverse of their order in the column
ColConflictPairs(s) ==
    Cardinality({p \in (0..(Len(s) - 1)) \X (0..(Len(s) - 1)) :
        /\ p[1] < p[2]
        /\ Cell(s, p[1]) # 0 /\ Cell(s, p[2]) # 0
        /\ p[1] % Size(s) = p[2] % Size(s)
        /\ (Cell(s, p[1]) - 1) % Size(s) = p[1] % Size(s)
        /\ (Cell(s, p[2]) - 1) % Size(s) = p[1] % Size(s)
        /\ (Cell(s, p[1]) - 1) \div Size(s) > (Cell(s, p[2]) - 1) \div Size(s)})

\* C12: the heuristics return the values the tests assert on the fixture boards, and
\* linear_conflict is the Manhattan distance plus 2 per linear-conflict pair, the pairs
\* along the rows and the pairs along the columns summed; stated for the fixture boards
\* and for the board the walker holds.
C12_FixtureValues ==
    /\ \A f \in HeuristicFixtures :
          /\ misplaced_tiles(f.board) = f.misplaced
          /\ manhattan_distance(f.board) = f.manhattan
          /\ linear_conflict(f.board) = f.linear_conflict
    /\ \A s \in {f.board : f \in HeuristicFixtures} \cup {state} :
          linear_conflict(s)
              = manhattan_distance(s) + 2 * (RowConflictPairs(s) + ColConflictPairs(s))

\* C13: on the goal board of either size the three heuristics are 0.
C13_GoalIsZero ==
    IsGoal(state) =>
        /\ misplaced_tiles(state) = 0
        /\ manhattan_distance(state) = 0
        /\ linear_conflict(state) = 0

\* the walker is back on the 4x4 goal
C13_Witness ==
    /\ IsGoal(state)
    /\ Size(state) = 4
    /\ depth > 0
    /\ Heuristic("linear_conflict", state) = 0

\* the inverse of a move: up <-> down, left <-> right
Inverse(move) ==
    IF move = "up" THEN "down"
    ELSE IF move = "down" THEN "up"
    ELSE IF move = "left" THEN "right"
    ELSE "left"

\* C14: move round trip: for every board s and every move m legal in s, the inverse
\* of m is legal in ApplyMove(s, m), and applying it there gives s back.
C14_MoveRoundTrip ==
    \A m \in Range(LegalMoves(state)) :
        /\ Inverse(m) \in Range(LegalMoves(ApplyMove(state, m)))
        /\ ApplyMove(ApplyMove(state, m), Inverse(m)) = state

\* a 4x4 board with the blank inside, where all four moves are legal
C14_Witness ==
    /\ Size(state) = 4
    /\ Len(LegalMoves(state)) = 4
    /\ ApplyMove(ApplyMove(state, "left"), "right") = state
    /\ ApplyMove(state, "left") # state

\* C15: an illegal move is rejected: when apply_move is called with a label that is
\* not among the legal moves of the receiver (a direction the blank cannot go, or a
\* label that is no direction), it raises the illegal-move error, returns no Puzzle,
\* and the receiver, which the caller still holds, is as it was before the call.
C15_IllegalMoveRejected ==
    (call.op = "apply_move" /\ call.arg \notin Range(LegalMoves(call.self.state)))
        => /\ call.raised = IllegalMove
           /\ call.returned = None
           /\ call.self_after = call.self
           /\ state = call.self.state

\* a label that is no direction was rejected on a 4x4 board where all four directions
\* are legal
C15_Witness ==
    /\ call.op = "apply_move"
    /\ call.arg = "diagonal"
    /\ call.self.size = 4
    /\ Len(LegalMoves(call.self.state)) = 4
    /\ call.raised = IllegalMove

\* the cell a move takes the blank to: one row up or down, or one column left or right
Target(s, move) ==
    IF move = "up" THEN BlankPos(s) - Size(s)
    ELSE IF move = "down" THEN BlankPos(s) + Size(s)
    ELSE IF move = "left" THEN BlankPos(s) - 1
    ELSE BlankPos(s) + 1

\* q holds each of 0..Len(q)-1 exactly once
IsPermutation(q) ==
    \A v \in 0..(Len(q) - 1) : Cardinality({k \in 1..Len(q) : q[k] = v}) = 1

\* C16: frame of a legal move: when apply_move is called with a legal move it raises
\* nothing and returns a Puzzle of the same size in which the blank's cell holds the
\* tile that was at the adjacent cell in the move's direction, that cell holds the
\* blank, and every other cell is as in the receiver; the returned cells are a
\* permutation of 0..N*N-1, its blank position is the adjacent cell, and the receiver's
\* cells and blank position are as they were before the call.
C16_LegalMoveFrame ==
    (call.op = "apply_move" /\ call.arg \in Range(LegalMoves(call.self.state)))
        => LET old == call.self.state
               new == call.returned.state
               from == BlankPos(old) + 1
               to == Target(old, call.arg) + 1
           IN  /\ call.raised = NotRaised
               /\ call.returned # None
               /\ Len(new) = Len(old)
               /\ call.returned.size = call.self.size
               /\ to \in 1..Len(old)
               /\ new[from] = old[to]
               /\ new[to] = 0
               /\ \A k \in 1..Len(old) : k \notin {from, to} => new[k] = old[k]
               /\ IsPermutation(new)
               /\ call.returned.blank_pos = to - 1
               /\ call.self_after = call.self
               /\ state = new

\* a legal move was applied to a 4x4 board with the blank inside, and moved a tile
C16_Witness ==
    /\ call.op = "apply_move"
    /\ call.arg = "right"
    /\ call.self.size = 4
    /\ Len(LegalMoves(call.self.state)) = 4
    /\ call.raised = NotRaised
    /\ call.returned.state # call.self.state

\* the moves the blank's position allows, in the order up, down, left, right
AllowedMoves(s) ==
    LET N == Size(s)
        row == BlankPos(s) \div N
        col == BlankPos(s) % N
        Allowed(m) == \/ m = "up" /\ row > 0
                      \/ m = "down" /\ row < N - 1
                      \/ m = "left" /\ col > 0
                      \/ m = "right" /\ col < N - 1
    IN  SelectSeq(<<"up", "down", "left", "right">>, Allowed)

\* C17: legal moves: get_legal_moves returns exactly the moves the blank's position
\* allows (up iff row > 0, down iff row < N-1, left iff col > 0, right iff col < N-1),
\* each once, in the fixed order up, down, left, right.
C17_LegalMoves == LegalMoves(state) = AllowedMoves(state)

\* the blank is inside a 4x4 board, where all four moves are legal, after it was on an
\* edge and in a corner
C17_Witness ==
    /\ Size(state) = 4
    /\ depth >= 2
    /\ LegalMoves(state) = <<"up", "down", "left", "right">>

\* C18: constructor validation: Puzzle(seq) returns a Puzzle exactly when seq has 9 or
\* 16 elements and holds each of 0..len-1 once, and the Puzzle then holds seq; for any
\* other seq (wrong length, a duplicate, a value out of range) it raises one of the
\* constructor's two validation errors and returns nothing.  So every Puzzle there is
\* (the one the caller holds, the receiver of a call, the one a call returned) holds a
\* permutation of 0..8 or of 0..15.
C18_ConstructValidates ==
    /\ call.op = "Construct" =>
          LET valid == Len(call.arg) \in {9, 16} /\ IsPermutation(call.arg)
          IN  /\ (call.raised = NotRaised) <=> valid
              /\ valid => call.returned # None /\ call.returned.state = call.arg
              /\ ~valid => call.raised \in {LengthError, ContentError} /\ call.returned = None
    /\ \A p \in {PuzzleObject(state), call.self, call.self_after, call.returned} \ {None} :
          Len(p.state) \in {9, 16} /\ IsPermutation(p.state)

\* the constructor rejected sixteen values, all of them in 0..15, because one is there
\* twice
C18_Witness ==
    /\ call.op = "Construct"
    /\ Len(call.arg) = 16
    /\ \A k \in 1..16 : call.arg[k] \in 0..15
    /\ call.raised = ContentError
    /\ call.returned = None

\* C19: parser errors: from_string raises the format error when a token is not an
\* integer; when every token is an integer and the constructor rejects the integers
\* (wrong count, or not a permutation), the caller receives the constructor's own
\* validation error, as Puzzle(...) would raise it for the same integers.
C19_ParseErrors ==
    call.op = "from_string" =>
        IF \E k \in 1..Len(call.arg) : ~IsIntToken(call.arg[k])
        THEN call.raised = FormatError
        ELSE LET made == Construct([k \in 1..Len(call.arg) |-> ParseInt(call.arg[k])])
             IN  /\ call.raised = made.raised
                 /\ made.raised # NotRaised => call.raised \in {LengthError, ContentError}

\* C20: random generation: when generate_random_solvable(n, size), called with n >= 1
\* and size 3 or 4, returns, its result holds exactly n puzzles, each of size * size
\* cells and solvable by is_solvable, and no two of them have the same state.
C20_GenerateDistinctSolvable ==
    (gen_pc = "done" /\ gen_n >= 1 /\ gen_size \in {3, 4})
        => /\ Len(gen_result) = gen_n
           /\ \A i \in 1..Len(gen_result) :
                 /\ gen_result[i].size = gen_size
                 /\ Len(gen_result[i].state) = gen_size * gen_size
                 /\ IsSolvable(gen_result[i].state)
           /\ \A i, j \in 1..Len(gen_result) :
                 i # j => gen_result[i].state # gen_result[j].state

\* a call for the largest number of 4x4 puzzles has returned, the goal board among them
C20_Witness ==
    /\ gen_pc = "done"
    /\ gen_n = MaxPuzzles
    /\ gen_size = 4
    /\ Len(gen_result) = MaxPuzzles
    /\ gen_raised = NotRaised
    /\ \E i \in 1..Len(gen_result) : IsGoal(gen_result[i].state)

\* C21: counters are per invocation: after any sequence of search calls on one engine,
\* nodes_expanded and nodes_generated are what a freshly constructed engine with the
\* same max_steps reports for the last call's board and heuristic, and so are the
\* result, the open list, the best-known map, the open set and the closed set the call
\* ended with: nothing of an earlier call is left in them.
C21_CountersPerCall ==
    (search_calls >= 1 /\ pc = "done")
        => LET fresh == RunSearch(algorithm, max_steps, initial_state, heuristic_name)
           IN  /\ nodes_expanded = fresh.nodes_expanded
               /\ nodes_generated = fresh.nodes_generated
               /\ result = fresh.result
               /\ open_list = fresh.open_list
               /\ open_dict = fresh.open_dict
               /\ open_set = fresh.open_set
               /\ closed_set = fresh.closed_set

\* the last of the calls on the engine found a solution after expanding nodes, on a
\* board the caller had moved to
C21_Witness ==
    /\ search_calls = MaxSearchCalls
    /\ pc = "done"
    /\ result # None
    /\ nodes_expanded >= 1
    /\ nodes_generated >= 3
    /\ depth = MaxReuseMoves
    /\ initial_state = state

\* the open list's entries carry the priority of their node (f for A*, h for
\* best-first) and a sequence number of their own, smaller than the counter
EntriesNumbered ==
    pc = "loop" =>
        /\ \A o \in open_list :
              /\ o[1] = IF algorithm = "astar" THEN nodes[o[3]].total_cost
                        ELSE nodes[o[3]].heuristic
              /\ o[2] < counter
        /\ \A a, b \in open_list : a[2] = b[2] => a = b

\* an iteration of either loop takes exactly one entry from the open list: one of least
\* priority and, among those, the one with the least sequence number
PopsFirstOfLeast ==
    (pc = "loop" /\ LoopCondition(Engine) /\ open_list' # open_list)
        => /\ Cardinality(open_list \ open_list') = 1
           /\ \A e \in open_list \ open_list' : \A o \in open_list :
                 e[1] < o[1] \/ (e[1] = o[1] /\ e[2] <= o[2])

\* a finished search reports what a second search of the same board, with the same
\* heuristic and max_steps, reports
SameAgain ==
    pc = "done" =>
        LET again == RunSearch(algorithm, max_steps, initial_state, heuristic_name)
        IN  /\ result = again.result
            /\ IF result = None THEN TRUE
               ELSE GetMovesPath(nodes, result) = GetMovesPath(again.nodes, again.result)
            /\ nodes_expanded = again.nodes_expanded
            /\ nodes_generated = again.nodes_generated

\* C22: deterministic tie-breaking: every open-list entry has its own insertion
\* sequence number, each pop takes the entry of least priority and among equal
\* priorities the one inserted first, and so a search of the same board with the same
\* heuristic and max_steps returns the same path, nodes_expanded and nodes_generated.
C22_DeterministicTies == []EntriesNumbered /\ [][PopsFirstOfLeast]_vars /\ []SameAgain

\* the open list holds several entries of the least priority, so the pop is decided by
\* the sequence numbers
C22_Witness ==
    /\ pc = "loop"
    /\ LoopCondition(Engine)
    /\ \E a, b \in open_list :
          /\ a # b
          /\ a[1] = b[1]
          /\ \A o \in open_list : a[1] <= o[1]

\* the states of the nodes held in the open list
OpenStates == {nodes[o[3]].state : o \in open_list}

\* the initial state and every neighbour of an expanded state are expanded or in the
\* open list, and the goal is never among the expanded states
Frontier ==
    /\ initial_state \in closed_set \cup OpenStates
    /\ \A s \in closed_set :
          /\ ~IsGoal(s)
          /\ \A m \in Range(LegalMoves(s)) : ApplyMove(s, m) \in closed_set \cup OpenStates

\* while a search with an ample budget is in its loop, the loop condition holds and the
\* frontier is whole; when it is over, it has returned a goal node
NeverGivesUp ==
    max_steps = AmpleMaxSteps =>
        /\ pc = "loop" => IsSolvable(initial_state) /\ LoopCondition(Engine) /\ Frontier
        /\ (pc = "done" /\ IsSolvable(initial_state)) => result # None /\ IsGoal(result.state)

\* C23: completeness: a search (A* or greedy best-first, any heuristic) of a solvable
\* 3x3 board with a step budget larger than the number of boards reachable from it
\* never finds its open list empty or its budget used up, and it terminates by
\* returning a goal node.
C23_Complete ==
    /\ []NeverGivesUp
    /\ (pc = "loop" /\ max_steps = AmpleMaxSteps)
          ~> (pc = "done" /\ result # None /\ IsGoal(result.state))

\* a best-first search with the ample budget returned a goal node after expanding more
\* nodes than the board is moves away from the goal
C23_Witness ==
    /\ pc = "done"
    /\ algorithm = "best-first"
    /\ max_steps = AmpleMaxSteps
    /\ result # None
    /\ IsGoal(result.state)
    /\ nodes_expanded > depth
    /\ depth = MaxCompleteScramble

\* what an iteration of A*'s loop does with the entry it pops: a goal node is returned;
\* any other node is expanded exactly when the best-known map holds that very node for
\* its state, its state was not expanded before and is closed now; otherwise it is
\* dropped, and nothing but the open list changes
PopsLazily ==
    (pc = "loop" /\ algorithm = "astar" /\ LoopCondition(Engine) /\ open_list' # open_list)
        => \A entry \in open_list \ open_list' :
              LET self == entry[3]
                  st == nodes[self].state
                  best == st \in DOMAIN open_dict /\ open_dict[st] = self
              IN  IF IsGoal(st)
                  THEN pc' = "done" /\ result' = nodes[self]
                       /\ nodes_expanded' = nodes_expanded
                  ELSE IF best
                  THEN /\ st \notin closed_set
                       /\ closed_set' = closed_set \cup {st}
                       /\ nodes_expanded' = nodes_expanded + 1
                       /\ st \notin DOMAIN open_dict'
                  ELSE /\ st \in closed_set
                       /\ nodes_expanded' = nodes_expanded
                       /\ nodes_generated' = nodes_generated
                       /\ closed_set' = closed_set
                       /\ open_dict' = open_dict
                       /\ nodes' = nodes
                       /\ open_list' = open_list \ {entry}

\* every expansion of A* closed a state of its own
ExpandedOnce == (pc = "loop" /\ algorithm = "astar") => Cardinality(closed_set) = nodes_expanded

\* C24: A* lazy deletion: a popped non-goal node is expanded only if it is the
\* best-known node of its state; a popped node that a cheaper node for the same state
\* superseded is dropped, without being expanded and without counting in
\* nodes_expanded; no state is expanded twice within one call.
C24_LazyDeletion == [][PopsLazily]_vars /\ []ExpandedOnce

\* the next pop of A* takes a node that a cheaper node for the same state superseded
C24_Witness ==
    /\ pc = "loop"
    /\ algorithm = "astar"
    /\ LoopCondition(Engine)
    /\ \E entry \in open_list :
          /\ \A o \in open_list : o = entry \/ EntryLess(entry, o)
          /\ ~IsGoal(nodes[entry[3]].state)
          /\ nodes[entry[3]].state \in closed_set
          /\ \E k \in 1..Len(nodes) :
                nodes[k].state = nodes[entry[3]].state /\ nodes[k].cost < nodes[entry[3]].cost

\* what an expanding iteration of A* does with each child of the node it expands: the
\* child is discarded when its state is closed, or when the best-known map holds a node
\* for its state that costs no more; otherwise the map gets the child for its state and
\* the open list gets an entry for it.  Every child counts in nodes_generated, and no
\* entry of the map gets dearer.
HandlesDuplicates ==
    (pc = "loop" /\ algorithm = "astar" /\ nodes_expanded' = nodes_expanded + 1)
        => \A entry \in open_list \ open_list' :
              LET children == Expand(nodes, entry[3], heuristic_name)
                  Discarded(c) ==
                      \/ c.state \in closed_set'
                      \/ /\ c.state \in DOMAIN open_dict
                         /\ nodes[open_dict[c.state]].cost <= c.cost
                  kept == {k \in 1..Len(children) : ~Discarded(children[k])}
              IN  /\ nodes_generated' = nodes_generated + Len(children)
                  /\ Len(nodes') = Len(nodes) + Cardinality(kept)
                  /\ counter' = counter + Cardinality(kept)
                  /\ \A k \in 1..Len(children) :
                        LET c == children[k]
                        IN  IF Discarded(c)
                            THEN /\ (c.state \in DOMAIN open_dict') = (c.state \in DOMAIN open_dict)
                                 /\ c.state \in DOMAIN open_dict
                                       => open_dict'[c.state] = open_dict[c.state]
                            ELSE /\ c.state \in DOMAIN open_dict'
                                 /\ open_dict'[c.state] > Len(nodes)
                                 /\ nodes'[open_dict'[c.state]] = c
                                 /\ \E o \in open_list' \ open_list :
                                       /\ o[1] = c.total_cost
                                       /\ o[2] >= counter
                                       /\ o[3] = open_dict'[c.state]
                  /\ \A st \in DOMAIN open_dict \cap DOMAIN open_dict' :
                        nodes'[open_dict'[st]].cost <= nodes[open_dict[st]].cost

\* in A*'s loop the best-known map and the closed set share no state, the map's node
\* for a state is a node of that state, in the open list, and no queued node of the
\* state is cheaper
BestKnown ==
    (pc = "loop" /\ algorithm = "astar")
        => /\ DOMAIN open_dict \cap closed_set = {}
           /\ \A st \in DOMAIN open_dict :
                 /\ nodes[open_dict[st]].state = st
                 /\ \E o \in open_list : o[3] = open_dict[st]
                 /\ \A k \in 1..Len(nodes) :
                       nodes[k].state = st => nodes[open_dict[st]].cost <= nodes[k].cost

\* C25: A* duplicate handling: a generated child is discarded when its state is in the
\* closed set or the best-known map holds a node for that state with cost <= the
\* child's; otherwise it replaces the map entry and is pushed.  So in every state of
\* the loop the map entry of a state has the least g of the nodes generated for that
\* state, and the map's keys and the closed set are disjoint.
C25_DuplicateHandling == [][HandlesDuplicates]_vars /\ []BestKnown

\* the best-known map holds a node that replaced a dearer node of the same state
C25_Witness ==
    /\ pc = "loop"
    /\ algorithm = "astar"
    /\ \E st \in DOMAIN open_dict : \E k \in 1..Len(nodes) :
          /\ k < open_dict[st]
          /\ nodes[k].state = st
          /\ nodes[k].cost > nodes[open_dict[st]].cost

\* C26: greedy best-first keeps the first node of a state: within one search call no two
\* pushed nodes have the same state (a later arrival is dropped, cheaper or not) and
\* every expansion closes a state of its own; the open set is exactly the set of the
\* states of the nodes in the priority queue, one entry each, and shares no state with
\* the closed set, so open_set.remove never fails on a popped state.
C26_KeepFirst ==
    algorithm = "best-first" =>
        /\ pc # "KeyError"
        /\ pc \in {"loop", "done"} =>
              /\ \A i, j \in 1..Len(nodes) : nodes[i].state = nodes[j].state => i = j
              /\ open_set = {nodes[o[3]].state : o \in open_list}
              /\ Cardinality(open_list) = Cardinality(open_set)
              /\ open_set \cap closed_set = {}
              /\ Cardinality(closed_set) = nodes_expanded
              /\ \A k \in 1..Len(nodes) : nodes[k].state \in open_set \cup closed_set
                                            \/ (pc = "done" /\ result = nodes[k])

\* a queued node is dearer than the arrival that the expansion of one of its
\* neighbours made for the same state: the cheaper arrival was dropped
C26_Witness ==
    /\ pc = "loop"
    /\ algorithm = "best-first"
    /\ \E p, q \in 1..Len(nodes) :
          /\ nodes[p].state \in closed_set
          /\ nodes[q].state \in open_set
          /\ \E m \in Range(LegalMoves(nodes[p].state)) :
                ApplyMove(nodes[p].state, m) = nodes[q].state
          /\ nodes[p].cost + 1 < nodes[q].cost

\* a search in its loop returns a node only by popping it while nodes_expanded <
\* max_steps; once nodes_expanded has reached max_steps it returns None, whatever the
\* open list holds
GoalOnlyOnPop ==
    pc = "loop" =>
        /\ (pc' = "done" /\ result' # None)
              => /\ nodes_expanded < max_steps
                 /\ nodes_expanded' = nodes_expanded
                 /\ \E entry \in open_list \ open_list' : result' = nodes[entry[3]]
                 /\ IsGoal(result'.state)
        /\ (nodes_expanded >= max_steps /\ pc' # pc) => (pc' = "done" /\ result' = None)

\* s is more than k moves away from the goal
FartherThan(s, k) == k < 0 \/ s \notin Within({GoalState(Size(s))}, k)

\* a finished search of a solvable board that is not the goal: a returned node was
\* reached with fewer than max_steps expansions, at least one per move of its path; and
\* when the board is at least max_steps moves away from the goal, None was returned
BudgetBelowDistance ==
    (pc = "done" /\ IsSolvable(initial_state) /\ ~IsGoal(initial_state))
        => /\ result # None => nodes_expanded < max_steps /\ result.cost <= nodes_expanded
           /\ (max_steps <= MaxSmallSteps /\ FartherThan(initial_state, max_steps - 1))
                 => result = None

\* C27: the goal is detected only on a pop, and a pop happens only while nodes_expanded
\* < max_steps: a goal node in the open list when nodes_expanded reaches max_steps is
\* not returned.  So for a solvable board that is not the goal and is d moves away from
\* it, both searches return None for every max_steps <= d, and a returned goal node was
\* popped with nodes_expanded < max_steps.
C27_GoalOnlyOnPop == [][GoalOnlyOnPop]_vars /\ []BudgetBelowDistance

\* a search gave up with a goal node in its open list: the board is max_steps moves
\* away from the goal and max_steps nodes were expanded
C27_Witness ==
    /\ pc = "done"
    /\ result = None
    /\ max_steps = MaxSmallSteps
    /\ nodes_expanded = max_steps
    /\ ~FartherThan(initial_state, max_steps)
    /\ \E o \in open_list : IsGoal(nodes[o[3]].state)

\* every move legal on s leaves a board that is_solvable judges as it judges s
MoveKeepsSolvability(s) ==
    \A m \in Range(LegalMoves(s)) : IsSolvable(ApplyMove(s, m)) = IsSolvable(s)

\* the board in hand, solvable or not, stays as it is judged under each of its moves
MovePreservesSolvability == MoveKeepsSolvability(state)

\* the boards a search holds: those of its nodes, and the keys of its open and closed
\* collections
SearchBoards ==
    {nodes[n].state : n \in DOMAIN nodes} \cup DOMAIN open_dict \cup open_set \cup closed_set

\* the boards a step of a search of a solvable board adds to those the search holds are
\* solvable, and so is every board one move away from them
HoldsSolvableBoards ==
    (pc' # "idle" /\ IsSolvable(initial_state'))
        => \A s \in SearchBoards' \ SearchBoards : IsSolvable(s) /\ MoveKeepsSolvability(s)

\* C28: solvability is invariant under moves: for every board s of either size and
\* every move m legal on s, IsSolvable(ApplyMove(s, m)) = IsSolvable(s); hence every
\* board generated, queued or expanded by a search started from a solvable board is
\* solvable.
C28_SolvabilityInvariant ==
    /\ []MovePreservesSolvability
    /\ [][HoldsSolvableBoards]_vars

\* a search of a solvable 4x4 board expanded a node by a vertical move, which changes
\* the parity of the inversions and the row of the blank together
C28_Witness ==
    /\ pc = "done"
    /\ Size(initial_state) = 4
    /\ IsSolvable(initial_state)
    /\ \E n \in DOMAIN nodes :
          /\ nodes[n].move \in {"up", "down"}
          /\ Inversions(nodes[n].state) % 2 # Inversions(nodes[nodes[n].parent].state) % 2
          /\ nodes[n].state \in closed_set

====
